---- MODULE Spec2Model ----
(***************************************************************************)
(* MediRust (RustVault): envelope encryption of health records.            *)
(*                                                                         *)
(* crypto.rs   CryptoUtils: AES-256-GCM, RSA PKCS#1 v1.5 key wrapping,     *)
(*             base64 and PEM helpers.                                     *)
(* handlers.rs the actix handlers that seal a record (create_health_record)*)
(*             and open records (get_health_record_by_id,                  *)
(*             get_health_records_for_patient).                            *)
(*                                                                         *)
(* The library primitives are modelled as ideal cryptography:              *)
(*   - an AES-GCM ciphertext is the term {key, nonce, plaintext} together  *)
(*     with the set of its bits that were flipped since it was produced;   *)
(*     it authenticates only under its own key and nonce, unflipped;       *)
(*   - an RSA ciphertext is the term {modulus, padding, message}; it       *)
(*     decrypts only under the private key of its modulus;                 *)
(*   - OsRng never repeats a draw: a draw is identified by its number;     *)
(*   - an IPFS content id is an injective function of the content.         *)
(***************************************************************************)
EXTENDS Integers, Sequences, FiniteSets, TLC

\* crypto.rs:15, crypto.rs:16, crypto.rs:68
AES_KEY_SIZE == 32
NONCE_SIZE == 12
RSA_BITS == 2048

\* Bounds of the model: requests served, bit flips applied to one ciphertext.
MaxReq == 3
MaxFlips == 1

---------------------------------------------------------------------------
\* anyhow::Result: Ok(value) or Err(message).
NoVal == <<>>

Ok(v) == [ok |-> TRUE, val |-> v, err |-> ""]

Err(e) == [ok |-> FALSE, val |-> NoVal, err |-> e]

\* The messages of the anyhow! errors of crypto.rs, under the spec's names.
InvalidKeySize == "Invalid AES key size"

InvalidNonceSize == "Invalid Nonce size"

AuthenticationFailure == "Failed to decrypt data"

WrapFailure == "Failed to encrypt AES key with RSA"

UnwrapFailure == "Failed to decrypt AES key with RSA"

Base64DecodeFailure == "Failed to decode base64"

KeyDecodeFailure == "Failed to import public key from PEM"

---------------------------------------------------------------------------
\* A buffer that is never filled: the zeroes it was allocated with.
fill_bytes_zero(n, s) == [i \in 1..n |-> 0]

\* OsRng.fill_bytes on a buffer of n bytes: draw number s yields bytes that no
\* other draw yields (the first byte is the draw number).
fill_bytes(n, s) == [i \in 1..n |-> (s + i - 1) % 256]

\* crypto.rs generate_aes_key: 32 bytes from OsRng.
generate_aes_key(s) == fill_bytes(AES_KEY_SIZE, s)

\* Aes256Gcm encrypt: the ciphertext (with its tag) of data under key, nonce.
GcmEncrypt(key, nonce, data) ==
    [key |-> key, nonce |-> nonce, pt |-> data, flips |-> {}]

\* byte with its bit k (0 the lowest) inverted.
FlipBit(byte, k) ==
    IF (byte \div (2 ^ k)) % 2 = 1 THEN byte - 2 ^ k ELSE byte + 2 ^ k

RECURSIVE FlipBits(_, _)
FlipBits(byte, ks) ==
    IF ks = {} THEN byte
    ELSE LET k == CHOOSE x \in ks : TRUE
         IN  FlipBits(FlipBit(byte, k), ks \ {k})

\* What the counter-mode keystream of GCM turns a ciphertext into: a flipped
\* bit of the payload is a flipped bit of the plaintext (bit 8(i-1)+k is bit k
\* of byte i).
CtrPlain(ct) ==
    [i \in 1..Len(ct.pt) |->
        FlipBits(ct.pt[i], {k \in 0..7 : 8 * (i - 1) + k \in ct.flips})]

\* A decryption that returned the keystream's output without verifying the tag.
GcmDecryptUnverified(key, nonce, ct) == Ok(CtrPlain(ct))

\* Aes256Gcm decrypt: the tag verifies only for the key and nonce the
\* ciphertext was made with, and only when no bit of it was changed.
GcmDecrypt(key, nonce, ct) ==
    IF ct.key = key /\ ct.nonce = nonce /\ ct.flips = {}
    THEN Ok(CtrPlain(ct))
    ELSE Err(AuthenticationFailure)

\* Length in bytes of an AES-GCM ciphertext: the payload and the 16-byte tag.
CiphertextLen(ct) == Len(ct.pt) + 16

\* An encrypt_data that returns another nonce than the one it encrypted with.
encrypt_data_other_nonce(data, key, s) ==
    IF Len(key) # AES_KEY_SIZE
    THEN Err(InvalidKeySize)
    ELSE Ok([ciphertext |-> GcmEncrypt(key, fill_bytes(NONCE_SIZE, s), data),
             nonce |-> fill_bytes(NONCE_SIZE, s + 1)])

\* crypto.rs encrypt_data: (ciphertext, nonce), the nonce drawn from OsRng.
encrypt_data(data, key, s) ==
    IF Len(key) # AES_KEY_SIZE
    THEN Err(InvalidKeySize)
    ELSE LET nonce_bytes == fill_bytes(NONCE_SIZE, s)
         IN  Ok([ciphertext |-> GcmEncrypt(key, nonce_bytes, data),
                 nonce |-> nonce_bytes])

\* A decrypt_data that cuts a longer key to the first 32 bytes.
decrypt_data_truncating(ciphertext, key, nonce_bytes) ==
    IF Len(key) < AES_KEY_SIZE
    THEN Err(InvalidKeySize)
    ELSE IF Len(nonce_bytes) # NONCE_SIZE
         THEN Err(InvalidNonceSize)
         ELSE GcmDecrypt(SubSeq(key, 1, AES_KEY_SIZE), nonce_bytes, ciphertext)

\* crypto.rs decrypt_data.
decrypt_data(ciphertext, key, nonce_bytes) ==
    IF Len(key) # AES_KEY_SIZE
    THEN Err(InvalidKeySize)
    ELSE IF Len(nonce_bytes) # NONCE_SIZE
         THEN Err(InvalidNonceSize)
         ELSE GcmDecrypt(key, nonce_bytes, ciphertext)

\* crypto.rs generate_rsa_key_pair: draw s gives the pair of modulus s.
PrivateKey(n) == [priv |-> n]

PublicKey(n) == [pub |-> n]

\* A key generation whose randomness is the same at every call: one pair.
generate_rsa_key_pair_fixed(s) ==
    Ok([private_key |-> PrivateKey(1), public_key |-> PublicKey(1)])

generate_rsa_key_pair(s) == Ok([private_key |-> PrivateKey(s), public_key |-> PublicKey(s)])

\* Bytes that are no RSA ciphertext of any key.
NoRsa == [rsa |-> 0, pad |-> 0, msg |-> <<>>]

\* A wrap that hands the key bytes back unencrypted (rsa 0: readable by all).
encrypt_aes_key_with_rsa_plain(aes_key, public_key, s) ==
    Ok([rsa |-> 0, pad |-> 0, msg |-> aes_key])

\* crypto.rs encrypt_aes_key_with_rsa: PKCS#1 v1.5, padding drawn from OsRng;
\* a message longer than the modulus less 11 bytes does not fit.
encrypt_aes_key_with_rsa(aes_key, public_key, s) ==
    IF Len(aes_key) > (RSA_BITS \div 8) - 11
    THEN Err(WrapFailure)
    ELSE Ok([rsa |-> public_key.pub, pad |-> s, msg |-> aes_key])

\* A decrypt_aes_key_with_rsa that returns what it finds under any key.
decrypt_aes_key_with_rsa_any_key(encrypted_aes_key, private_key) ==
    IF encrypted_aes_key.rsa # 0
    THEN Ok(encrypted_aes_key.msg)
    ELSE Err(UnwrapFailure)

\* crypto.rs decrypt_aes_key_with_rsa.
decrypt_aes_key_with_rsa(encrypted_aes_key, private_key) ==
    IF encrypted_aes_key.rsa # 0 /\ encrypted_aes_key.rsa = private_key.priv
    THEN Ok(encrypted_aes_key.msg)
    ELSE Err(UnwrapFailure)

\* crypto.rs encode_base64: the base64 text of data. Text is a value of its
\* own kind: b64 says whether it is well-formed base64, data what it decodes to.
encode_base64(data) == [b64 |-> TRUE, data |-> data]

\* Text that is not base64 (an invalid alphabet or padding), made from text t.
Malformed(t) == [b64 |-> FALSE, data |-> t.data]

\* crypto.rs decode_base64.
decode_base64(text) ==
    IF text.b64 THEN Ok(text.data) ELSE Err(Base64DecodeFailure)

\* An export in the format the comment above export_public_key_to_pem names:
\* PKCS#8 (SubjectPublicKeyInfo), whose PEM label is PUBLIC KEY.
export_public_key_to_pem_pkcs8(public_key) ==
    Ok([label |-> "PUBLIC KEY", body |-> encode_base64(public_key.pub)])

\* crypto.rs export_public_key_to_pem: PKCS#1 PEM, a label around the base64
\* of the key's DER encoding.
export_public_key_to_pem(public_key) ==
    Ok([label |-> "RSA PUBLIC KEY", body |-> encode_base64(public_key.pub)])

\* crypto.rs import_public_key_from_pem.
import_public_key_from_pem(pem) ==
    IF pem.label = "RSA PUBLIC KEY" /\ decode_base64(pem.body).ok
    THEN Ok(PublicKey(decode_base64(pem.body).val))
    ELSE Err(KeyDecodeFailure)

\* crypto.rs export_private_key_to_pem: PKCS#1 PEM of the private key.
export_private_key_to_pem(private_key) ==
    Ok([label |-> "RSA PRIVATE KEY", body |-> encode_base64(private_key.priv)])

\* crypto.rs import_private_key_from_pem.
import_private_key_from_pem(pem) ==
    IF pem.label = "RSA PRIVATE KEY" /\ decode_base64(pem.body).ok
    THEN Ok(PrivateKey(decode_base64(pem.body).val))
    ELSE Err("Failed to import private key from PEM")

\* str::as_bytes of a String given as its code points (below U+0800): UTF-8.
RECURSIVE as_bytes(_)
as_bytes(str) ==
    IF str = <<>> THEN <<>>
    ELSE LET c == Head(str)
         IN  (IF c < 128 THEN <<c>> ELSE <<192 + (c \div 64), 128 + (c % 64)>>)
             \o as_bytes(Tail(str))

\* String::from_utf8 on bytes: the String, or an error on invalid UTF-8
\* (lead bytes of three and more byte sequences are outside the model's
\* alphabet and are refused).
RECURSIVE from_utf8(_)
from_utf8(bytes) ==
    IF bytes = <<>> THEN Ok(<<>>)
    ELSE LET b == Head(bytes)
         IN  IF b < 128
             THEN LET rest == from_utf8(Tail(bytes))
                  IN  IF rest.ok THEN Ok(<<b>> \o rest.val) ELSE rest
             ELSE IF b >= 194 /\ b < 224 /\ Len(bytes) >= 2
                     /\ bytes[2] >= 128 /\ bytes[2] < 192
                  THEN LET rest == from_utf8(Tail(Tail(bytes)))
                       IN  IF rest.ok
                           THEN Ok(<<(b - 192) * 64 + (bytes[2] - 128)>> \o rest.val)
                           ELSE rest
                  ELSE Err("invalid utf-8")

---------------------------------------------------------------------------
\* The handlers' state: the two tables of schema.rs, the IPFS node, the
\* number of OsRng draws made so far, and the requests being served.
VARIABLES patients, health_records, ipfs, rng, req, tc

vars == <<patients, health_records, ipfs, rng, req, tc>>

\* The contents (Strings, as code points) a client posts.
Contents == { <<>>, <<79, 233>> }

\* An id that no row has.
NoId == 0

\* ipfs.add: the content id (hash) of a blob.
Cid(blob) == [hash |-> blob]

NoCt == GcmEncrypt(<<>>, <<>>, <<>>)

NoRow == [id |-> 0, patient_id |-> 0, ipfs_cid |-> Cid(NoCt),
          encrypted_aes_key |-> encode_base64(NoRsa), nonce |-> encode_base64(<<>>)]

\* An HTTP response: status, the handler's message prefix, the error it wraps.
Resp(status, ctx, err) == [status |-> status, ctx |-> ctx, err |-> err]

NoResp == Resp(0, "", "")

\* "Could not decode UTF-8"
CouldNotDecode ==
    <<67, 111, 117, 108, 100, 32, 110, 111, 116, 32, 100, 101, 99, 111, 100,
      101, 32, 85, 84, 70, 45, 56>>

\* The locals of a handler invocation; steps is the history of what it did.
NoReq ==
    [kind |-> "none", pc |-> "idle", arg |-> 0, content |-> <<>>,
     public_key |-> PublicKey(0), private_key |-> PrivateKey(0),
     aes_key |-> <<>>, nonce |-> <<>>, encrypted_content |-> NoCt,
     ipfs_cid |-> Cid(NoCt), encrypted_aes_key |-> encode_base64(NoRsa),
     records |-> <<>>, record |-> NoRow, blob |-> NoCt, decrypted |-> <<>>,
     steps |-> <<>>, resp |-> NoResp, row |-> NoRow]

\* The slot of the next request: requests are numbered as they arrive.
NextSlot == Cardinality({r \in 1..MaxReq : req[r].kind # "none"}) + 1

Respond(q, status, ctx, err) ==
    [q EXCEPT !.pc = "done", !.resp = Resp(status, ctx, err)]

\* An open that unwraps the key before it decodes the nonce.
open_record_unwrap_first(encrypted_content_bytes, record, private_key) ==
    LET decoded_encrypted_aes_key == decode_base64(record.encrypted_aes_key)
        decoded_nonce == decode_base64(record.nonce)
        decrypted_aes_key ==
            decrypt_aes_key_with_rsa(decoded_encrypted_aes_key.val, private_key)
        decrypted_content_bytes ==
            decrypt_data(encrypted_content_bytes, decrypted_aes_key.val,
                         decoded_nonce.val)
        utf8 == from_utf8(decrypted_content_bytes.val)
        out(status, ctx, err, content, plain, steps) ==
            [resp |-> Resp(status, ctx, err), content |-> content,
             plain |-> plain, steps |-> steps]
    IN  IF ~decoded_encrypted_aes_key.ok
        THEN out(500, "Error decoding encrypted AES key",
                 decoded_encrypted_aes_key.err, <<>>, <<>>, <<"decode_key">>)
        ELSE IF ~decrypted_aes_key.ok
        THEN out(500, "Error decrypting AES key", decrypted_aes_key.err, <<>>, <<>>,
                 <<"decode_key", "unwrap">>)
        ELSE IF ~decoded_nonce.ok
        THEN out(500, "Error decoding nonce", decoded_nonce.err, <<>>, <<>>,
                 <<"decode_key", "unwrap", "decode_nonce">>)
        ELSE IF ~decrypted_content_bytes.ok
        THEN out(500, "Error decrypting health record content",
                 decrypted_content_bytes.err, <<>>, <<>>,
                 <<"decode_key", "unwrap", "decode_nonce", "decrypt">>)
        ELSE out(200, "", "",
                 IF utf8.ok THEN utf8.val ELSE CouldNotDecode,
                 decrypted_content_bytes.val,
                 <<"decode_key", "unwrap", "decode_nonce", "decrypt">>)

\* An open that answers a failed unwrap with an empty content.
open_record_swallow(encrypted_content_bytes, record, private_key) ==
    LET decoded_encrypted_aes_key == decode_base64(record.encrypted_aes_key)
        decoded_nonce == decode_base64(record.nonce)
        decrypted_aes_key ==
            decrypt_aes_key_with_rsa(decoded_encrypted_aes_key.val, private_key)
        decrypted_content_bytes ==
            decrypt_data(encrypted_content_bytes, decrypted_aes_key.val,
                         decoded_nonce.val)
        utf8 == from_utf8(decrypted_content_bytes.val)
        out(status, ctx, err, content, plain, steps) ==
            [resp |-> Resp(status, ctx, err), content |-> content,
             plain |-> plain, steps |-> steps]
    IN  IF ~decoded_encrypted_aes_key.ok
        THEN out(500, "Error decoding encrypted AES key",
                 decoded_encrypted_aes_key.err, <<>>, <<>>, <<"decode_key">>)
        ELSE IF ~decoded_nonce.ok
        THEN out(500, "Error decoding nonce", decoded_nonce.err, <<>>, <<>>,
                 <<"decode_key", "decode_nonce">>)
        ELSE IF ~decrypted_aes_key.ok
        THEN out(200, "", "", <<>>, <<>>,
                 <<"decode_key", "decode_nonce", "unwrap">>)
        ELSE IF ~decrypted_content_bytes.ok
        THEN out(500, "Error decrypting health record content",
                 decrypted_content_bytes.err, <<>>, <<>>,
                 <<"decode_key", "decode_nonce", "unwrap", "decrypt">>)
        ELSE out(200, "", "",
                 IF utf8.ok THEN utf8.val ELSE CouldNotDecode,
                 decrypted_content_bytes.val,
                 <<"decode_key", "decode_nonce", "unwrap", "decrypt">>)

\* handlers.rs 303-338 (and 205-241): what a retrieval handler does with a
\* record row, the blob read from IPFS and its private key. steps lists the
\* CryptoUtils calls made, in order; plain is what decrypt_data returned.
open_record(encrypted_content_bytes, record, private_key) ==
    LET decoded_encrypted_aes_key == decode_base64(record.encrypted_aes_key)
        decoded_nonce == decode_base64(record.nonce)
        decrypted_aes_key ==
            decrypt_aes_key_with_rsa(decoded_encrypted_aes_key.val, private_key)
        decrypted_content_bytes ==
            decrypt_data(encrypted_content_bytes, decrypted_aes_key.val,
                         decoded_nonce.val)
        utf8 == from_utf8(decrypted_content_bytes.val)
        out(status, ctx, err, content, plain, steps) ==
            [resp |-> Resp(status, ctx, err), content |-> content,
             plain |-> plain, steps |-> steps]
    IN  IF ~decoded_encrypted_aes_key.ok
        THEN out(500, "Error decoding encrypted AES key",
                 decoded_encrypted_aes_key.err, <<>>, <<>>, <<"decode_key">>)
        ELSE IF ~decoded_nonce.ok
        THEN out(500, "Error decoding nonce", decoded_nonce.err, <<>>, <<>>,
                 <<"decode_key", "decode_nonce">>)
        ELSE IF ~decrypted_aes_key.ok
        THEN out(500, "Error decrypting AES key", decrypted_aes_key.err, <<>>, <<>>,
                 <<"decode_key", "decode_nonce", "unwrap">>)
        ELSE IF ~decrypted_content_bytes.ok
        THEN out(500, "Error decrypting health record content",
                 decrypted_content_bytes.err, <<>>, <<>>,
                 <<"decode_key", "decode_nonce", "unwrap", "decrypt">>)
        ELSE out(200, "", "",
                 IF utf8.ok THEN utf8.val ELSE CouldNotDecode,
                 decrypted_content_bytes.val,
                 <<"decode_key", "decode_nonce", "unwrap", "decrypt">>)

---------------------------------------------------------------------------
\* The row of patients with this id, as a set (empty: diesel::NotFound).
PatientRows(pid) == {p \in patients : p.id = pid}

RecordRows(rid) ==
    {health_records[i] : i \in {j \in 1..Len(health_records) : health_records[j].id = rid}}

\* health_records of one patient, in table order.
RECURSIVE RecordsOf(_, _)
RecordsOf(rows, pid) ==
    IF rows = <<>> THEN <<>>
    ELSE (IF Head(rows).patient_id = pid THEN <<Head(rows)>> ELSE <<>>)
         \o RecordsOf(Tail(rows), pid)

\* The ids a client may ask for: those of the rows, and one of no row.
PatientIds == {p.id : p \in patients} \cup {NoId}

RecordIds == {health_records[i].id : i \in 1..Len(health_records)} \cup {NoId}

\* Outcomes of a database query or an IPFS call, which may fail on their own.
IO == {"ok", "err"}

\* handlers.rs create_patient: the key pair, the PEM of its public half, the
\* insert. The private key is dropped; the history keeps it in private_key.
create_patient(r) ==
    /\ r = NextSlot
    /\ \E db \in IO :
        LET keys == generate_rsa_key_pair(rng + 1).val
            pem == export_public_key_to_pem(keys.public_key)
            q == [NoReq EXCEPT !.kind = "create_patient",
                               !.private_key = keys.private_key,
                               !.public_key = keys.public_key,
                               !.steps = <<"keygen", "export", "insert">>]
            new_patient == [id |-> r, public_key_pem |-> pem.val]
        IN  /\ rng' = rng + 1
            /\ IF ~pem.ok
               THEN /\ req' = [req EXCEPT ![r] =
                                 Respond(q, 500, "Error exporting public key", pem.err)]
                    /\ UNCHANGED patients
               ELSE IF db = "ok"
               THEN /\ patients' = patients \cup {new_patient}
                    /\ req' = [req EXCEPT ![r] = Respond(q, 201, "", "")]
               ELSE /\ req' = [req EXCEPT ![r] =
                                 Respond(q, 500, "Error creating patient", "db")]
                    /\ UNCHANGED patients
    /\ UNCHANGED <<health_records, ipfs, tc>>

\* handlers.rs create_health_record, 82-105: the patient's row and its key.
chr_lookup(r) ==
    /\ r = NextSlot
    /\ \E pid \in PatientIds, content \in Contents, db \in IO :
        LET q == [NoReq EXCEPT !.kind = "create_health_record", !.arg = pid,
                               !.content = content, !.steps = <<"lookup">>]
            found == PatientRows(pid)
            patient == CHOOSE p \in found : TRUE
            public_key == import_public_key_from_pem(patient.public_key_pem)
        IN  req' = [req EXCEPT ![r] =
                IF db = "err" THEN Respond(q, 500, "Error getting patient", "db")
                ELSE IF found = {} THEN Respond(q, 404, "Patient not found", "")
                ELSE IF ~public_key.ok
                THEN Respond([q EXCEPT !.steps = <<"lookup", "import">>],
                             500, "Error importing public key", public_key.err)
                ELSE [q EXCEPT !.pc = "encrypt", !.public_key = public_key.val,
                               !.steps = <<"lookup", "import">>]]
    /\ UNCHANGED <<patients, health_records, ipfs, rng, tc>>

\* handlers.rs 107-112: a new AES key, the content encrypted under it.
chr_encrypt(r) ==
    /\ req[r].kind = "create_health_record" /\ req[r].pc = "encrypt"
    /\ LET aes_key == generate_aes_key(rng + 1)
           enc == encrypt_data(as_bytes(req[r].content), aes_key, rng + 2)
           q == [req[r] EXCEPT !.aes_key = aes_key,
                               !.steps = Append(@, "encrypt")]
       IN  req' = [req EXCEPT ![r] =
               IF ~enc.ok THEN Respond(q, 500, "Error encrypting data", enc.err)
               ELSE [q EXCEPT !.pc = "upload",
                              !.encrypted_content = enc.val.ciphertext,
                              !.nonce = enc.val.nonce]]
    /\ rng' = rng + 2
    /\ UNCHANGED <<patients, health_records, ipfs, tc>>

\* An upload whose failure is ignored: the handler goes on with the content id.
chr_upload_ignore_failure(r) ==
    /\ req[r].kind = "create_health_record" /\ req[r].pc = "upload"
    /\ \E io \in IO :
        LET q == [req[r] EXCEPT !.steps = Append(@, "upload")]
        IN  /\ req' = [req EXCEPT ![r] =
                  [q EXCEPT !.pc = "wrap", !.ipfs_cid = Cid(q.encrypted_content)]]
            /\ ipfs' = IF io = "ok" THEN ipfs \cup {q.encrypted_content} ELSE ipfs
    /\ UNCHANGED <<patients, health_records, rng, tc>>

\* handlers.rs 114-118: the ciphertext goes to IPFS.
chr_upload(r) ==
    /\ req[r].kind = "create_health_record" /\ req[r].pc = "upload"
    /\ \E io \in IO :
        LET q == [req[r] EXCEPT !.steps = Append(@, "upload")]
        IN  IF io = "ok"
            THEN /\ ipfs' = ipfs \cup {q.encrypted_content}
                 /\ req' = [req EXCEPT ![r] =
                        [q EXCEPT !.pc = "wrap",
                                  !.ipfs_cid = Cid(q.encrypted_content)]]
            ELSE /\ req' = [req EXCEPT ![r] =
                        Respond(q, 500, "Error uploading to IPFS", "ipfs")]
                 /\ UNCHANGED ipfs
    /\ UNCHANGED <<patients, health_records, rng, tc>>

\* The key generated last by any request, as a buffer shared by all would hold.
LastKey ==
    LET sealing == {x \in 1..MaxReq : req[x].aes_key # <<>>}
        last == CHOOSE x \in sealing :
                    \A y \in sealing : req[y].aes_key[1] <= req[x].aes_key[1]
    IN  req[last].aes_key

\* A wrap that takes the key from a buffer shared by all requests.
chr_wrap_shared_key(r) ==
    /\ req[r].kind = "create_health_record" /\ req[r].pc = "wrap"
    /\ LET wrapped == encrypt_aes_key_with_rsa(LastKey, req[r].public_key, rng + 1)
           q == [req[r] EXCEPT !.steps = Append(@, "wrap")]
       IN  req' = [req EXCEPT ![r] =
               IF ~wrapped.ok
               THEN Respond(q, 500, "Error encrypting AES key", wrapped.err)
               ELSE [q EXCEPT !.pc = "insert",
                              !.encrypted_aes_key = encode_base64(wrapped.val)]]
    /\ rng' = rng + 1
    /\ UNCHANGED <<patients, health_records, ipfs, tc>>

\* handlers.rs 120-124: the AES key wrapped under the patient's public key.
chr_wrap(r) ==
    /\ req[r].kind = "create_health_record" /\ req[r].pc = "wrap"
    /\ LET wrapped == encrypt_aes_key_with_rsa(req[r].aes_key, req[r].public_key,
                                               rng + 1)
           q == [req[r] EXCEPT !.steps = Append(@, "wrap")]
       IN  req' = [req EXCEPT ![r] =
               IF ~wrapped.ok
               THEN Respond(q, 500, "Error encrypting AES key", wrapped.err)
               ELSE [q EXCEPT !.pc = "insert",
                              !.encrypted_aes_key = encode_base64(wrapped.val)]]
    /\ rng' = rng + 1
    /\ UNCHANGED <<patients, health_records, ipfs, tc>>

\* NewHealthRecord::to_health_record (models.rs) as create_health_record calls
\* it: the row holding the content id, the wrapped key and the nonce it is
\* handed. The other columns of schema.rs (record_type, title,
\* encryption_key_cid, the timestamps) hold nothing the seal produced.
to_health_record(r, patient_id, ipfs_cid, encrypted_aes_key, nonce) ==
    [id |-> r, patient_id |-> patient_id, ipfs_cid |-> ipfs_cid,
     encrypted_aes_key |-> encrypted_aes_key, nonce |-> nonce]

\* handlers.rs 126-144: the row is inserted and returned.
chr_insert(r) ==
    /\ req[r].kind = "create_health_record" /\ req[r].pc = "insert"
    /\ \E db \in IO :
        LET new_health_record ==
                to_health_record(r, req[r].arg, req[r].ipfs_cid,
                                 req[r].encrypted_aes_key,
                                 encode_base64(req[r].nonce))
            q == [req[r] EXCEPT !.steps = Append(@, "insert")]
        IN  IF db = "ok"
            THEN /\ health_records' = Append(health_records, new_health_record)
                 /\ req' = [req EXCEPT ![r] =
                        Respond([q EXCEPT !.row = new_health_record], 201, "", "")]
            ELSE /\ req' = [req EXCEPT ![r] =
                        Respond(q, 500, "Error creating health record", "db")]
                 /\ UNCHANGED health_records
    /\ UNCHANGED <<patients, ipfs, rng, tc>>

---------------------------------------------------------------------------
\* ipfs.cat of a content id: the blob, when the node holds it.
Cat(cid) == IF cid.hash \in ipfs THEN Ok(cid.hash) ELSE Err("ipfs")

\* handlers.rs get_health_record_by_id, 253-295: the row, its patient, and a
\* key pair generated on the spot, whose private key the handler goes on with.
\* (main.rs routes no path to this handler; it is served here like the others.)
ghr_lookup(r) ==
    /\ r = NextSlot
    /\ \E rid \in RecordIds, db \in {"ok", "err_record", "err_patient"} :
        LET q == [NoReq EXCEPT !.kind = "get_health_record_by_id", !.arg = rid,
                               !.steps = <<"lookup">>]
            found == RecordRows(rid)
            record == CHOOSE x \in found : TRUE
            keys == generate_rsa_key_pair(rng + 1)
        IN  IF db = "err_record"
            THEN /\ req' = [req EXCEPT ![r] =
                        Respond(q, 500, "Error getting health record", "db")]
                 /\ UNCHANGED rng
            ELSE IF found = {}
            THEN /\ req' = [req EXCEPT ![r] =
                        Respond(q, 404, "Health record not found", "")]
                 /\ UNCHANGED rng
            ELSE IF db = "err_patient"
            THEN /\ req' = [req EXCEPT ![r] =
                        Respond(q, 500, "Error getting patient for record", "db")]
                 /\ UNCHANGED rng
            ELSE IF PatientRows(record.patient_id) = {}
            THEN /\ req' = [req EXCEPT ![r] =
                        Respond(q, 404, "Patient not found for record", "")]
                 /\ UNCHANGED rng
            ELSE /\ req' = [req EXCEPT ![r] =
                        [q EXCEPT !.pc = "cat", !.record = record,
                                  !.private_key = keys.val.private_key,
                                  !.steps = <<"lookup", "keygen">>]]
                 /\ rng' = rng + 1
    /\ UNCHANGED <<patients, health_records, ipfs, tc>>

\* handlers.rs 297-301: the blob is read from IPFS.
ghr_cat(r) ==
    /\ req[r].kind = "get_health_record_by_id" /\ req[r].pc = "cat"
    /\ \E io \in IO :
        LET q == [req[r] EXCEPT !.steps = Append(@, "cat")]
            got == Cat(q.record.ipfs_cid)
        IN  req' = [req EXCEPT ![r] =
                IF io = "err" \/ ~got.ok
                THEN Respond(q, 500,
                        "Error retrieving encrypted content from IPFS", "ipfs")
                ELSE [q EXCEPT !.pc = "open", !.blob = got.val]]
    /\ UNCHANGED <<patients, health_records, ipfs, rng, tc>>

\* One decrypted record of a retrieval handler's JSON.
Entry(record, content) ==
    [id |-> record.id, patient_id |-> record.patient_id,
     ipfs_cid |-> record.ipfs_cid, content |-> content]

\* handlers.rs 303-338: decode, unwrap, decrypt, respond.
ghr_open(r) ==
    /\ req[r].kind = "get_health_record_by_id" /\ req[r].pc = "open"
    /\ LET o == open_record(req[r].blob, req[r].record, req[r].private_key)
           q == [req[r] EXCEPT !.pc = "done", !.resp = o.resp,
                               !.steps = @ \o o.steps]
       IN  req' = [req EXCEPT ![r] =
               IF o.resp.status = 200
               THEN [q EXCEPT !.decrypted = <<Entry(q.record, o.content)>>]
               ELSE q]
    /\ UNCHANGED <<patients, health_records, ipfs, rng, tc>>

\* handlers.rs get_health_records_for_patient, 153-181: the patient, and a
\* key pair generated on the spot.
ghp_lookup(r) ==
    /\ r = NextSlot
    /\ \E pid \in PatientIds, db \in IO :
        LET q == [NoReq EXCEPT !.kind = "get_health_records_for_patient",
                               !.arg = pid, !.steps = <<"lookup">>]
            keys == generate_rsa_key_pair(rng + 1)
        IN  IF db = "err"
            THEN /\ req' = [req EXCEPT ![r] =
                        Respond(q, 500, "Error getting patient", "db")]
                 /\ UNCHANGED rng
            ELSE IF PatientRows(pid) = {}
            THEN /\ req' = [req EXCEPT ![r] =
                        Respond(q, 404, "Patient not found", "")]
                 /\ UNCHANGED rng
            ELSE /\ req' = [req EXCEPT ![r] =
                        [q EXCEPT !.pc = "load",
                                  !.private_key = keys.val.private_key,
                                  !.steps = <<"lookup", "keygen">>]]
                 /\ rng' = rng + 1
    /\ UNCHANGED <<patients, health_records, ipfs, tc>>

\* handlers.rs 183-197: the patient's rows; with none, the empty list is
\* the answer.
ghp_load(r) ==
    /\ req[r].kind = "get_health_records_for_patient" /\ req[r].pc = "load"
    /\ \E db \in IO :
        LET q == [req[r] EXCEPT !.steps = Append(@, "load")]
            records == RecordsOf(health_records, q.arg)
        IN  req' = [req EXCEPT ![r] =
                IF db = "err"
                THEN Respond(q, 500, "Error getting health records", "db")
                ELSE IF records = <<>>
                THEN Respond(q, 200, "", "")
                ELSE [q EXCEPT !.pc = "cat", !.records = records,
                               !.record = Head(records)]]
    /\ UNCHANGED <<patients, health_records, ipfs, rng, tc>>

\* handlers.rs 198-203: the blob of the loop's current record.
ghp_cat(r) ==
    /\ req[r].kind = "get_health_records_for_patient" /\ req[r].pc = "cat"
    /\ \E io \in IO :
        LET q == [req[r] EXCEPT !.steps = Append(@, "cat")]
            got == Cat(q.record.ipfs_cid)
        IN  req' = [req EXCEPT ![r] =
                IF io = "err" \/ ~got.ok
                THEN Respond(q, 500,
                        "Error retrieving encrypted content from IPFS", "ipfs")
                ELSE [q EXCEPT !.pc = "open", !.blob = got.val]]
    /\ UNCHANGED <<patients, health_records, ipfs, rng, tc>>

\* handlers.rs 205-244: the current record is opened and pushed; the loop
\* goes on with the next one, and answers after the last.
ghp_open(r) ==
    /\ req[r].kind = "get_health_records_for_patient" /\ req[r].pc = "open"
    /\ LET o == open_record(req[r].blob, req[r].record, req[r].private_key)
           q == [req[r] EXCEPT !.steps = @ \o o.steps]
           rest == Tail(q.records)
           pushed == [q EXCEPT !.decrypted = Append(@, Entry(q.record, o.content)),
                               !.records = rest]
       IN  req' = [req EXCEPT ![r] =
               IF o.resp.status # 200
               THEN [q EXCEPT !.pc = "done", !.resp = o.resp]
               ELSE IF rest = <<>>
               THEN Respond(pushed, 200, "", "")
               ELSE [pushed EXCEPT !.pc = "cat", !.record = Head(rest)]]
    /\ UNCHANGED <<patients, health_records, ipfs, rng, tc>>

---------------------------------------------------------------------------
(* CryptoUtils and the open path applied to inputs of every kind: one case  *)
(* seals a plaintext for recipient A as create_health_record does, the      *)
(* stored artifacts are then altered or not, and the record is opened as    *)
(* the retrieval handlers do, with A's private key or with B's.             *)

\* The payloads sealed: empty, text, bytes that are no UTF-8.
Plaintexts == { <<>>, <<79, 195, 169>>, <<255>> }

\* Key and nonce lengths handed to encrypt_data and decrypt_data.
KeyLens == {0, AES_KEY_SIZE - 1, AES_KEY_SIZE, AES_KEY_SIZE + 1}

NonceLens == {0, NONCE_SIZE - 1, NONCE_SIZE, NONCE_SIZE + 1}

\* bytes cut or zero-filled to n bytes.
Resize(bytes, n) == [i \in 1..n |-> IF i <= Len(bytes) THEN bytes[i] ELSE 0]

\* What may happen to the stored texts of a record before it is opened.
Corruptions == {"key_text", "nonce_text", "short_nonce", "junk_key"}

NoOpen == [resp |-> NoResp, content |-> <<>>, plain |-> <<>>, steps |-> <<>>]

NoCall == [op |-> "none", key |-> <<>>, nonce |-> <<>>, res |-> Err("")]

NoCase ==
    [pc |-> "none", plaintext |-> <<>>, A |-> 0, B |-> 0, aes_key |-> <<>>,
     nonce |-> <<>>, sealed |-> NoCt, blob |-> NoCt, record |-> NoRow,
     corrupt |-> {}, opener |-> 0, res |-> NoOpen, call |-> NoCall]

\* Key pairs for A and B, then handlers.rs 107-131 without the upload: key,
\* ciphertext and nonce, wrapped key, and the row of their texts.
env_seal ==
    /\ tc.pc = "none"
    /\ \E plaintext \in Plaintexts :
        LET A == generate_rsa_key_pair(rng + 1).val
            B == generate_rsa_key_pair(rng + 2).val
            aes_key == generate_aes_key(rng + 3)
            enc == encrypt_data(plaintext, aes_key, rng + 4)
            wrapped == encrypt_aes_key_with_rsa(aes_key, A.public_key, rng + 5)
        IN  /\ enc.ok /\ wrapped.ok
            /\ tc' = [tc EXCEPT
                    !.pc = "sealed", !.plaintext = plaintext,
                    !.A = A.private_key.priv, !.B = B.private_key.priv,
                    !.aes_key = aes_key, !.nonce = enc.val.nonce,
                    !.sealed = enc.val.ciphertext, !.blob = enc.val.ciphertext,
                    !.record = [NoRow EXCEPT
                        !.ipfs_cid = Cid(enc.val.ciphertext),
                        !.encrypted_aes_key = encode_base64(wrapped.val),
                        !.nonce = encode_base64(enc.val.nonce)]]
    /\ rng' = rng + 5
    /\ UNCHANGED <<patients, health_records, ipfs, req>>

\* One bit of the stored ciphertext is flipped.
env_flip ==
    /\ tc.pc = "sealed"
    /\ Cardinality(tc.blob.flips) < MaxFlips
    /\ \E bit \in 0..(8 * CiphertextLen(tc.blob) - 1) :
        /\ bit \notin tc.blob.flips
        /\ tc' = [tc EXCEPT !.blob.flips = @ \cup {bit}]
    /\ UNCHANGED <<patients, health_records, ipfs, rng, req>>

\* A stored text is replaced: by text that is no base64, by the base64 of a
\* nonce one byte short, by the base64 of bytes that are no RSA ciphertext.
env_corrupt ==
    /\ tc.pc = "sealed"
    /\ \E c \in Corruptions \ tc.corrupt :
        tc' = [tc EXCEPT
            !.corrupt = @ \cup {c},
            !.record.encrypted_aes_key =
                IF c = "key_text" THEN Malformed(@)
                ELSE IF c = "junk_key" THEN [@ EXCEPT !.data = NoRsa]
                ELSE @,
            !.record.nonce =
                IF c = "nonce_text" THEN Malformed(@)
                ELSE IF c = "short_nonce"
                     THEN [@ EXCEPT !.data = Resize(@, NONCE_SIZE - 1)]
                ELSE @]
    /\ UNCHANGED <<patients, health_records, ipfs, rng, req>>

\* The record is opened with A's private key or with B's.
env_open ==
    /\ tc.pc = "sealed"
    /\ \E n \in {tc.A, tc.B} :
        tc' = [tc EXCEPT !.pc = "opened", !.opener = n,
                         !.res = open_record(tc.blob, tc.record, PrivateKey(n))]
    /\ UNCHANGED <<patients, health_records, ipfs, rng, req>>

\* encrypt_data called with a key of any length.
env_encrypt_call ==
    /\ tc.pc = "none"
    /\ \E plaintext \in Plaintexts, klen \in KeyLens :
        LET key == Resize(generate_aes_key(rng + 1), klen)
        IN  tc' = [tc EXCEPT !.pc = "called", !.plaintext = plaintext,
                     !.call = [op |-> "encrypt_data", key |-> key, nonce |-> <<>>,
                               res |-> encrypt_data(plaintext, key, rng + 2)]]
    /\ rng' = rng + 2
    /\ UNCHANGED <<patients, health_records, ipfs, req>>

\* decrypt_data called on a sealed ciphertext with its key and nonce cut or
\* zero-filled to any length.
env_decrypt_call ==
    /\ tc.pc = "sealed" /\ tc.corrupt = {} /\ tc.blob.flips = {}
    /\ \E klen \in KeyLens, nlen \in NonceLens :
        LET key == Resize(tc.aes_key, klen)
            nonce == Resize(tc.nonce, nlen)
        IN  tc' = [tc EXCEPT !.pc = "called",
                     !.call = [op |-> "decrypt_data", key |-> key, nonce |-> nonce,
                               res |-> decrypt_data(tc.blob, key, nonce)]]
    /\ UNCHANGED <<patients, health_records, ipfs, rng, req>>

---------------------------------------------------------------------------
Init ==
    /\ patients = {}
    /\ health_records = <<>>
    /\ ipfs = {}
    /\ rng = 0
    /\ req = [r \in 1..MaxReq |-> NoReq]
    /\ tc = NoCase

Next ==
    \E r \in 1..MaxReq :
        \/ create_patient(r)
        \/ chr_lookup(r)
        \/ chr_encrypt(r)
        \/ chr_upload(r)
        \/ chr_wrap(r)
        \/ chr_insert(r)
        \/ ghr_lookup(r)
        \/ ghr_cat(r)
        \/ ghr_open(r)
        \/ ghp_lookup(r)
        \/ ghp_load(r)
        \/ ghp_cat(r)
        \/ ghp_open(r)

\* The server: requests arrive and their handlers interleave.
Spec == Init /\ [][Next]_vars

EnvelopeNext ==
    \/ env_seal
    \/ env_flip
    \/ env_corrupt
    \/ env_open
    \/ env_encrypt_call
    \/ env_decrypt_call

\* CryptoUtils and the open path on inputs of every kind.
EnvelopeSpec == Init /\ [][EnvelopeNext]_vars

---------------------------------------------------------------------------
(* Properties of CryptoUtils and of the open path, under EnvelopeSpec.      *)

Opened == tc.pc = "opened"

\* The record is opened as it was sealed: texts and ciphertext unaltered.
Unaltered == tc.corrupt = {} /\ tc.blob.flips = {}

\* C1: round trip. A plaintext (the empty one included) sealed under A's
\* public key and opened, unaltered, with A's private key: the open succeeds
\* and decrypt_data returns exactly the plaintext that was sealed.
RoundTrip ==
    (Opened /\ tc.opener = tc.A /\ Unaltered)
        => /\ tc.res.resp.status = 200
           /\ tc.res.plain = tc.plaintext

RoundTripWitness ==
    /\ Opened /\ tc.opener = tc.A /\ Unaltered
    /\ tc.plaintext = <<>>
    /\ tc.res.resp.status = 200
    /\ tc.res.plain = <<>>

\* C2: wrong-key rejection. A record sealed under A's public key and opened
\* with B's private key (its texts well-formed base64) fails at the unwrap
\* step with UnwrapFailure: decrypt_data is not reached and no plaintext is
\* returned.
WrongKeyRejected ==
    (Opened /\ tc.opener # tc.A
       /\ "key_text" \notin tc.corrupt /\ "nonce_text" \notin tc.corrupt)
        => /\ tc.res.resp = Resp(500, "Error decrypting AES key", UnwrapFailure)
           /\ tc.res.steps = <<"decode_key", "decode_nonce", "unwrap">>
           /\ tc.res.plain = <<>> /\ tc.res.content = <<>>

WrongKeyWitness ==
    /\ Opened /\ tc.opener = tc.B /\ tc.B # tc.A /\ Unaltered
    /\ tc.plaintext # <<>>
    /\ tc.res.resp.err = UnwrapFailure

\* C3: tamper detection. With the original key and nonce, a ciphertext of
\* which any bit was flipped fails decrypt_data with AuthenticationFailure;
\* and no open, and no decrypt_data call, ever returns a plaintext other than
\* the one that was sealed.
TamperDetected ==
    /\ (Opened /\ tc.opener = tc.A /\ tc.corrupt = {} /\ tc.blob.flips # {})
         => tc.res.resp = Resp(500, "Error decrypting health record content",
                               AuthenticationFailure)
    /\ (Opened /\ tc.res.resp.status = 200) => tc.res.plain = tc.plaintext
    /\ (tc.call.op = "decrypt_data" /\ tc.call.res.ok)
         => tc.call.res.val = tc.plaintext

TamperWitness ==
    /\ Opened /\ tc.opener = tc.A /\ tc.corrupt = {}
    /\ tc.plaintext # <<>>
    /\ \E bit \in tc.blob.flips : bit < 8 * Len(tc.plaintext)
    /\ CtrPlain(tc.blob) # tc.plaintext
    /\ tc.res.resp.err = AuthenticationFailure

\* The first step of the open that fails on the case's inputs, or "none".
FirstFailure ==
    IF "key_text" \in tc.corrupt THEN "decode_key"
    ELSE IF "nonce_text" \in tc.corrupt THEN "decode_nonce"
    ELSE IF tc.opener # tc.A \/ "junk_key" \in tc.corrupt THEN "unwrap"
    ELSE IF "short_nonce" \in tc.corrupt \/ tc.blob.flips # {} THEN "decrypt"
    ELSE "none"

\* C7: open step ordering. The open decodes the wrapped key, decodes the
\* nonce, unwraps, then decrypts, in that order; the first step that fails
\* ends it with that step's error, whatever would have failed later, and no
\* step runs twice.
OpenStepOrder ==
    Opened =>
        /\ FirstFailure = "decode_key" =>
             /\ tc.res.steps = <<"decode_key">>
             /\ tc.res.resp =
                  Resp(500, "Error decoding encrypted AES key", Base64DecodeFailure)
        /\ FirstFailure = "decode_nonce" =>
             /\ tc.res.steps = <<"decode_key", "decode_nonce">>
             /\ tc.res.resp = Resp(500, "Error decoding nonce", Base64DecodeFailure)
        /\ FirstFailure = "unwrap" =>
             /\ tc.res.steps = <<"decode_key", "decode_nonce", "unwrap">>
             /\ tc.res.resp = Resp(500, "Error decrypting AES key", UnwrapFailure)
        /\ FirstFailure = "decrypt" =>
             /\ tc.res.steps = <<"decode_key", "decode_nonce", "unwrap", "decrypt">>
             /\ tc.res.resp.status = 500
             /\ tc.res.resp.ctx = "Error decrypting health record content"
             /\ tc.res.resp.err =
                  (IF "short_nonce" \in tc.corrupt THEN InvalidNonceSize
                   ELSE AuthenticationFailure)
        /\ FirstFailure = "none" =>
             /\ tc.res.steps = <<"decode_key", "decode_nonce", "unwrap", "decrypt">>
             /\ tc.res.resp.status = 200

\* Two steps would fail; the earlier one is the one reported.
OpenStepOrderWitness ==
    /\ Opened /\ tc.opener = tc.B /\ tc.B # tc.A
    /\ tc.corrupt = {"nonce_text"} /\ tc.blob.flips # {}
    /\ tc.res.resp.ctx = "Error decoding nonce"
    /\ tc.res.steps = <<"decode_key", "decode_nonce">>

\* C8: size validation. encrypt_data fails with InvalidKeySize for a key of
\* any length but 32; decrypt_data fails with InvalidKeySize for such a key
\* and with InvalidNonceSize for a 32-byte key and a nonce of any length but
\* 12, also when the key or nonce is the right one cut or zero-filled; a
\* failed call returns no ciphertext and no plaintext.
SizeValidation ==
    /\ (tc.call.op = "encrypt_data" /\ Len(tc.call.key) # AES_KEY_SIZE)
         => tc.call.res = Err(InvalidKeySize)
    /\ (tc.call.op = "encrypt_data" /\ Len(tc.call.key) = AES_KEY_SIZE)
         => tc.call.res.ok
    /\ (tc.call.op = "decrypt_data" /\ Len(tc.call.key) # AES_KEY_SIZE)
         => tc.call.res = Err(InvalidKeySize)
    /\ (tc.call.op = "decrypt_data" /\ Len(tc.call.key) = AES_KEY_SIZE
          /\ Len(tc.call.nonce) # NONCE_SIZE)
         => tc.call.res = Err(InvalidNonceSize)
    /\ (Opened /\ FirstFailure = "decrypt" /\ "short_nonce" \in tc.corrupt)
         => tc.res.resp.err = InvalidNonceSize /\ tc.res.plain = <<>>

\* The right key with one byte appended is refused, not cut to fit.
SizeValidationWitness ==
    /\ tc.call.op = "decrypt_data"
    /\ Len(tc.call.key) = AES_KEY_SIZE + 1
    /\ SubSeq(tc.call.key, 1, AES_KEY_SIZE) = tc.aes_key
    /\ tc.call.nonce = tc.nonce
    /\ tc.call.res = Err(InvalidKeySize)

---------------------------------------------------------------------------
(* Properties of the handlers, under Spec.                                  *)

Rows == {health_records[i] : i \in 1..Len(health_records)}

\* The create_health_record invocations, and those that have encrypted.
Creates == {r \in 1..MaxReq : req[r].kind = "create_health_record"}

Seals == {r \in Creates : req[r].nonce # <<>>}

Created == {r \in Creates : req[r].pc = "done" /\ req[r].resp.status = 201}

Retrievals ==
    {r \in 1..MaxReq : req[r].kind \in {"get_health_record_by_id",
                                        "get_health_records_for_patient"}}

\* The AES key a row's wrapped key holds, and the row's nonce.
RowKey(row) == decode_base64(row.encrypted_aes_key).val.msg

RowNonce(row) == decode_base64(row.nonce).val

\* C4: key/nonce non-reuse. After any sequence of create_health_record
\* calls, no two seals have the same (AES key, nonce) pair: every seal draws
\* its key and its nonce from OsRng (which does not repeat a draw).
NoKeyNonceReuse ==
    \A r1 \in Seals, r2 \in Seals :
        r1 # r2 => <<req[r1].aes_key, req[r1].nonce>> # <<req[r2].aes_key, req[r2].nonce>>

\* Two records of the same content for the same patient, both created.
NoKeyNonceReuseWitness ==
    /\ Cardinality(Created) = 2
    /\ \A r \in Created : req[r].content = <<>> /\ req[r].nonce # <<>>
    /\ \A r1 \in Created, r2 \in Created : req[r1].arg = req[r2].arg

\* The byte strings the stores hold in the clear: the decoded nonce columns,
\* and what a wrapped-key column holds under no key at all.
ClearBytes ==
    {RowNonce(row) : row \in Rows}
        \cup {RowKey(row) : row \in {x \in Rows :
                                decode_base64(x.encrypted_aes_key).val.rsa = 0}}

\* The moduli whose private key is persisted: patients rows hold the PEM of a
\* public key only.
StoredPrivate == {p.id : p \in {x \in patients : x.public_key_pem.label # "RSA PUBLIC KEY"}}

\* C5: symmetric key confidentiality at rest. Neither store holds an AES key
\* or a plaintext in the clear: every blob is an AES-GCM ciphertext under a
\* 32-byte key that is not among the stored bytes, every wrapped key is
\* encrypted under a key pair whose private key is not stored, and what a
\* seal persisted is its ciphertext, its wrapped key and its nonce only.
ConfidentialAtRest ==
    /\ StoredPrivate = {}
    /\ \A r \in Seals : req[r].aes_key \notin ClearBytes
    /\ \A r \in Seals : req[r].content # <<>> => as_bytes(req[r].content) \notin ClearBytes
    /\ \A blob \in ipfs :
         /\ Len(blob.key) = AES_KEY_SIZE /\ blob.key \notin ClearBytes
         /\ \E r \in Seals : blob = req[r].encrypted_content
    /\ \A row \in Rows :
         /\ decode_base64(row.encrypted_aes_key).val.rsa # 0
         /\ \E r \in Seals :
              /\ row.ipfs_cid = Cid(req[r].encrypted_content)
              /\ RowKey(row) = req[r].aes_key
              /\ decode_base64(row.encrypted_aes_key).val.rsa = req[r].public_key.pub
              /\ RowNonce(row) = req[r].nonce

ConfidentialAtRestWitness ==
    \E r \in Created :
        /\ req[r].content # <<>>
        /\ req[r].row \in Rows
        /\ req[r].encrypted_content \in ipfs

\* The response of create_health_record when the step named failed.
StepError(step) ==
    CASE step = "lookup" -> {Resp(500, "Error getting patient", "db"),
                             Resp(404, "Patient not found", "")}
      [] step = "import" -> {Resp(500, "Error importing public key", KeyDecodeFailure)}
      [] step = "encrypt" -> {Resp(500, "Error encrypting data", InvalidKeySize)}
      [] step = "upload" -> {Resp(500, "Error uploading to IPFS", "ipfs")}
      [] step = "wrap" -> {Resp(500, "Error encrypting AES key", WrapFailure)}
      [] step = "insert" -> {Resp(500, "Error creating health record", "db")}

\* The public key modulus in the patients row of this id.
PatientKey(pid) ==
    decode_base64((CHOOSE p \in patients : p.id = pid).public_key_pem.body).val

\* C6: seal atomicity. A create_health_record that ended without 201 ended
\* with the error of the step it stopped at, returned no row and stored none;
\* one that ended with 201 ran every step, and the row it returned and
\* stored holds the content id of its own ciphertext (which IPFS holds), its
\* own AES key wrapped under the patient's key, and its own nonce.
SealAtomic ==
    /\ \A r \in Creates :
        LET q == req[r]
        IN  /\ (q.pc = "done" /\ q.resp.status = 201) =>
                 /\ q.steps = <<"lookup", "import", "encrypt", "upload", "wrap", "insert">>
                 /\ q.row \in Rows
                 /\ q.row.id = r /\ q.row.patient_id = q.arg
                 /\ q.row.ipfs_cid = Cid(q.encrypted_content)
                 /\ q.encrypted_content \in ipfs
                 /\ q.encrypted_content =
                      GcmEncrypt(q.aes_key, q.nonce, as_bytes(q.content))
                 /\ q.row.nonce = encode_base64(q.nonce)
                 /\ q.row.encrypted_aes_key.b64
                 /\ RowKey(q.row) = q.aes_key
                 /\ decode_base64(q.row.encrypted_aes_key).val.rsa = PatientKey(q.arg)
            /\ (q.pc = "done" /\ q.resp.status # 201) =>
                 /\ q.resp \in StepError(q.steps[Len(q.steps)])
                 /\ q.row = NoRow
                 /\ \A row \in Rows : row.id # r
            /\ q.pc # "done" =>
                 /\ q.resp = NoResp /\ q.row = NoRow
                 /\ \A row \in Rows : row.id # r
    /\ \A row \in Rows : row.id \in Created /\ req[row.id].row = row

SealAtomicWitness ==
    /\ \E r \in Creates :
         /\ req[r].pc = "done"
         /\ req[r].resp = Resp(500, "Error uploading to IPFS", "ipfs")
         /\ req[r].aes_key # <<>>
    /\ Created # {}

\* The private keys generated so far (a key pair is the number of its draw).
PrivateKeys == {PrivateKey(n) : n \in 1..rng}

InterleavingIndependent ==
    /\ \A r \in Seals :
         req[r].encrypted_content =
             GcmEncrypt(req[r].aes_key, req[r].nonce, as_bytes(req[r].content))
    /\ \A r1 \in Seals, r2 \in Seals :
         r1 # r2 =>
            /\ req[r1].aes_key # req[r2].aes_key
            /\ req[r1].nonce # req[r2].nonce
            /\ req[r1].encrypted_content # req[r2].encrypted_content
    /\ \A r \in Created :
        LET q == req[r]
            blob == Cat(q.ipfs_cid)
            sealed == [NoRow EXCEPT !.ipfs_cid = q.ipfs_cid,
                                    !.encrypted_aes_key = q.encrypted_aes_key,
                                    !.nonce = encode_base64(q.nonce)]
            o == open_record(blob.val, sealed, PrivateKey(PatientKey(q.arg)))
        IN  /\ blob.ok
            /\ o.resp.status = 200
            /\ o.plain = as_bytes(q.content)
            /\ o.content = q.content

\* Two seals that overlapped: the later request drew its key first.
InterleavingWitness ==
    \E r1 \in Created, r2 \in Created :
        /\ r1 < r2
        /\ req[r2].aes_key[1] < req[r1].aes_key[1]
        /\ req[r1].content # req[r2].content

\* The key pairs the handlers generated: create_patient's (handlers.rs 23-27)
\* and the retrievals' (176-181, 291-295).
KeyPairs ==
    {generate_rsa_key_pair(req[r].private_key.priv).val :
        r \in {x \in 1..MaxReq : req[x].private_key # PrivateKey(0)}}

\* The create_health_record invocations that imported the patient's key.
Imported ==
    {r \in Creates : Len(req[r].steps) >= 2 /\ req[r].steps[2] = "import"
                      /\ req[r].resp \notin StepError("import")}

Opening ==
    {r \in Retrievals : req[r].pc = "done" /\ Len(req[r].steps) >= 4
                         /\ req[r].steps[Len(req[r].steps) - 1] = "decode_nonce"}

\* C12: decrypt-time key mismatch. The private key a retrieval handler
\* unwraps with belongs to a pair it generated itself, which is no patient's
\* pair, and no patient's private key is stored; so every retrieval that gets
\* as far as opening a stored record ends at the unwrap with "Error
\* decrypting AES key", and no retrieval ever returns a decrypted content.
KeyMismatch ==
    /\ StoredPrivate = {}
    /\ \A r \in Retrievals :
        LET q == req[r]
        IN  /\ \A p \in patients : q.private_key.priv # PatientKey(p.id)
            /\ q.decrypted = <<>>
            /\ (q.pc = "done" /\ q.resp.status = 200) => q.records = <<>>
            /\ (q.pc = "done" /\ q.record # NoRow /\ q.blob # NoCt) =>
                 /\ q.steps[Len(q.steps)] = "unwrap"
                 /\ q.resp = Resp(500, "Error decrypting AES key", UnwrapFailure)

\* A retrieval of a record that create_health_record stored ended at the
\* unwrap, though the record opens to its content under the patient's key.
KeyMismatchWitness ==
    \E r \in Opening, c \in Created :
        /\ req[r].record = req[c].row
        /\ req[r].blob = req[c].encrypted_content
        /\ req[r].resp = Resp(500, "Error decrypting AES key", UnwrapFailure)
        /\ req[r].private_key # req[req[c].arg].private_key
        /\ open_record(req[r].blob, req[r].record,
                       req[req[c].arg].private_key).plain = as_bytes(req[c].content)
        /\ req[c].content # <<>>

\* The create_health_record invocations that ended without a record.
Failed == {r \in Creates : req[r].pc = "done" /\ req[r].resp.status # 201}

\* C13: no partial observable state. A create_health_record that failed left
\* the collaborators as they were: the blob it encrypted is not in IPFS and
\* no row holds its content id, and every blob that a finished
\* create_health_record put into IPFS has a row of its content id.
NoPartialState ==
    /\ \A r \in Failed :
        /\ req[r].encrypted_content \notin ipfs
        /\ \A row \in Rows : row.ipfs_cid # Cid(req[r].encrypted_content)
    /\ \A r \in Creates :
        (req[r].pc = "done" /\ req[r].encrypted_content \in ipfs) =>
            \E row \in Rows : row.ipfs_cid = Cid(req[r].encrypted_content)

====
